---- MODULE Spec2Model ----
(***************************************************************************)
(* Model of pos_streamlit.py: one Streamlit script run is a sequential     *)
(* program (fetch -> normalise -> load rules -> evaluate alerts -> UI      *)
(* handlers); the session state (the rule list) and the Google sheet       *)
(* persist between runs.                                                   *)
(*                                                                         *)
(* Python floats are modelled by integers; the bounded inputs are chosen   *)
(* so that every division of the code is exact.  Python values that may be *)
(* None, a number or a string are tagged records.                          *)
(***************************************************************************)
EXTENDS Integers, Sequences, FiniteSets, TLC

\* ---------------------------------------------------------------- values
NoneV == [t |-> "none"]
Str(s) == [t |-> "str", v |-> s]
Num(n) == [t |-> "num", v |-> n]

IsNone(x) == x.t = "none"

\* Bound of the float literals the model can parse and print.
MaxFloat == 200

FloatDomain == (0 - MaxFloat)..MaxFloat

\* f"{x:.2f}" of a whole number.
Fmt2(x) == ToString(x) \o ".00"

\* The text Google Sheets shows for a number cell written by worksheet.update.
NumberCell(x) == ToString(x)

\* The literals float() accepts, of the numbers of the domain.
FloatLiterals == UNION {{ToString(n), ToString(n) \o ".0", Fmt2(n)} : n \in FloatDomain}

LiteralValue ==
    [s \in FloatLiterals |->
        CHOOSE n \in FloatDomain : s \in {ToString(n), ToString(n) \o ".0", Fmt2(n)}]

\* float(s) for a string s: Num(n), or NoneV where Python raises ValueError.
ParseFloat(s) == IF s \in FloatLiterals THEN Num(LiteralValue[s]) ELSE NoneV

\* float(x) inside try/except (TypeError, ValueError).
to_float(x) ==
    IF x.t = "num" THEN x
    ELSE IF x.t = "str" THEN ParseFloat(x.v)
    ELSE NoneV

Abs(n) == IF n < 0 THEN 0 - n ELSE n

\* bool(x): None, 0 and "" are false; a dict with keys is true.
Truthy(x) ==
    CASE x.t = "none" -> FALSE
      [] x.t = "num" -> x.v # 0
      [] x.t = "str" -> x.v # ""
      [] OTHER -> TRUE

\* a or b
Or(a, b) == IF Truthy(a) THEN a ELSE b

\* ------------------------------------------------------ underlying detection
\* Text tests of detect_underlying on the symbols of the bounded inputs:
\* `"BTC" in txt.upper()`, `"ETH" in txt.upper()` and re.search(r"\b(BTC|ETH)\b").
HasBTC(txt) == txt \in {"BTCUSD", "C-BTC-120800-110825", "btc"}
HasETH(txt) == txt \in {"ETHUSD", "eth"}
WordMatch(txt) ==
    IF txt = "C-BTC-120800-110825" THEN Str("BTC") ELSE NoneV

\* First key of keys whose value is a string naming BTC or ETH (lines 161-168).
RECURSIVE KeyUnderlying(_)
KeyUnderlying(keys) ==
    IF keys = <<>> THEN NoneV
    ELSE IF Head(keys).t = "str" /\ HasBTC(Head(keys).v) THEN Str("BTC")
    ELSE IF Head(keys).t = "str" /\ HasETH(Head(keys).v) THEN Str("ETH")
    ELSE KeyUnderlying(Tail(keys))

\* product.keys holds the values of underlying_symbol, underlying,
\* base_asset_symbol and settlement_asset_symbol; product.spot_symbol is
\* product["spot_index"]["symbol"].
detect_underlying(product, fallback_symbol) ==
    LET k == KeyUnderlying(product.keys)
        s == IF product.spot_symbol.t = "str" THEN product.spot_symbol.v ELSE ""
    IN  IF ~IsNone(k) THEN k
        ELSE IF HasBTC(s) THEN Str("BTC")
        ELSE IF HasETH(s) THEN Str("ETH")
        ELSE IF ~IsNone(WordMatch(fallback_symbol)) THEN WordMatch(fallback_symbol)
        ELSE IF HasBTC(fallback_symbol) THEN Str("BTC")
        ELSE IF HasETH(fallback_symbol) THEN Str("ETH")
        ELSE NoneV

\* ----------------------------------------------------------- index prices
\* `"USD" in sym` on the ticker symbols of the bounded inputs.
HasUSD(txt) == txt \in {"BTCUSD", "ETHUSD", "SOLUSD"}

\* Lines 297-299: the price of one ticker.
TickerPrice(t) ==
    to_float(Or(Or(Or(t.index_price, t.spot_price), t.last_traded_price), t.mark_price))

\* Lines 297-305: the body of `for t in tickers` on the map built so far.
AddTicker(index_map, t) ==
    LET sym == IF t.symbol.t = "str" THEN t.symbol.v ELSE ""
        price == TickerPrice(t)
        withBTC == IF HasBTC(sym) /\ HasUSD(sym) /\ "BTC" \notin DOMAIN index_map
                   THEN ("BTC" :> price) @@ index_map ELSE index_map
    IN  IF ~Truthy(price) THEN index_map
        ELSE IF HasETH(sym) /\ HasUSD(sym) /\ "ETH" \notin DOMAIN withBTC
             THEN ("ETH" :> price) @@ withBTC ELSE withBTC

\* Lines 295-305: index_map, a function on a subset of {"BTC", "ETH"};
\* ts[1..n] have been visited.
RECURSIVE IndexMapUpTo(_, _)
IndexMapUpTo(ts, n) ==
    IF n = 0 THEN <<>> ELSE AddTicker(IndexMapUpTo(ts, n - 1), ts[n])

IndexMap(ts) == IndexMapUpTo(ts, Len(ts))

\* Lines 318-325: index_price of a position.
IndexPrice(p, underlying, index_map) ==
    LET first == Or(p.index_price, p.product.index_price)
        unwrapped == IF first.t = "dict" THEN Or(first.index_price, first.price) ELSE first
        spot == p.product.spot_index
        third == IF IsNone(unwrapped) /\ spot.t = "dict"
                 THEN Or(spot.index_price, spot.spot_price) ELSE unwrapped
        fourth == IF IsNone(third) /\ ~IsNone(underlying) /\ underlying.v \in DOMAIN index_map
                  THEN index_map[underlying.v] ELSE third
    IN  to_float(fourth)

\* ------------------------------------------------------------- normaliser
LotsPerCoinBTC == 1000
LotsPerCoinETH == 100

\* {"BTC": 1000.0, "ETH": 100.0}.get(underlying, 1.0)
lots_per_coin(underlying) ==
    IF underlying = "BTC" THEN LotsPerCoinBTC
    ELSE IF underlying = "ETH" THEN LotsPerCoinETH
    ELSE 1

\* Lines 327-331.
SizeCoins(size_lots, underlying) ==
    IF ~IsNone(size_lots) /\ ~IsNone(underlying)
    THEN Num(size_lots.v \div lots_per_coin(underlying.v))
    ELSE NoneV

\* A mutant of Upnl: the short branch forgotten.
UpnlLongOnly(entry_price, mark_price, size_coins) ==
    IF ~IsNone(entry_price) /\ ~IsNone(mark_price) /\ ~IsNone(size_coins)
    THEN Num((mark_price.v - entry_price.v) * Abs(size_coins.v))
    ELSE NoneV

\* Lines 327, 332-336: upnl_val.
Upnl(entry_price, mark_price, size_coins) ==
    IF ~IsNone(entry_price) /\ ~IsNone(mark_price) /\ ~IsNone(size_coins)
    THEN IF size_coins.v < 0
         THEN Num((entry_price.v - mark_price.v) * Abs(size_coins.v))
         ELSE Num((mark_price.v - entry_price.v) * Abs(size_coins.v))
    ELSE NoneV

\* f"{x:.2f}" if x is not None else None
FmtOpt(x) == IF IsNone(x) THEN NoneV ELSE Str(Fmt2(x.v))

\* f"{size_lots:.0f}" if size_lots is not None else None
FmtLots(x) == IF IsNone(x) THEN NoneV ELSE Str(ToString(x.v))

\* product.get("symbol") or p.get("symbol") or ""
ContractSymbol(p) ==
    IF p.product.symbol.t = "str" /\ p.product.symbol.v # "" THEN p.product.symbol.v
    ELSE IF p.symbol.t = "str" /\ p.symbol.v # "" THEN p.symbol.v
    ELSE ""

Columns ==
    {"Symbol", "Size (lots)", "Size (coins)", "Entry Price", "Index Price", "Mark Price",
     "UPNL (USD)"}

\* Lines 309-346: the row of one position.
ProcessPosition(p, index_map) ==
    LET contract_symbol == ContractSymbol(p)
        size_lots == to_float(p.size)
        underlying == detect_underlying(p.product, contract_symbol)
        entry_price == to_float(p.entry_price)
        mark_price == to_float(p.mark_price)
        index_price == IndexPrice(p, underlying, index_map)
        size_coins == SizeCoins(size_lots, underlying)
        upnl_val == Upnl(entry_price, mark_price, size_coins)
    IN  [c \in Columns |->
            CASE c = "Symbol" -> Str(contract_symbol)
              [] c = "Size (lots)" -> FmtLots(size_lots)
              [] c = "Size (coins)" -> FmtOpt(size_coins)
              [] c = "Entry Price" -> FmtOpt(entry_price)
              [] c = "Index Price" -> FmtOpt(index_price)
              [] c = "Mark Price" -> FmtOpt(mark_price)
              [] c = "UPNL (USD)" -> FmtOpt(upnl_val)]

\* pd.DataFrame(rows).sort_values(by="UPNL (USD)", key=..., ascending=False):
\* the sort key of a row (line 351).
SortKey(row) ==
    IF IsNone(row["UPNL (USD)"]) THEN 0 - 999999
    ELSE Abs(ParseFloat(row["UPNL (USD)"].v).v)

RECURSIVE InsertByKey(_, _)
InsertByKey(row, sorted) ==
    IF sorted = <<>> THEN <<row>>
    ELSE IF SortKey(row) > SortKey(Head(sorted)) THEN <<row>> \o sorted
    ELSE <<Head(sorted)>> \o InsertByKey(row, Tail(sorted))

RECURSIVE SortFrame(_)
SortFrame(rs) ==
    IF rs = <<>> THEN <<>>
    ELSE InsertByKey(rs[Len(rs)], SortFrame(SubSeq(rs, 1, Len(rs) - 1)))

\* Lines 295-351: the sorted frame of a non-empty position list.
BuildFrame(ps, ts) ==
    SortFrame([i \in 1..Len(ps) |-> ProcessPosition(ps[i], IndexMap(ts))])

\* Lines 354-364: the sum of the non-null "UPNL (USD)" cells.
RECURSIVE TotalUpnl(_)
TotalUpnl(frame) ==
    IF frame = <<>> THEN 0
    ELSE (IF IsNone(Head(frame)["UPNL (USD)"]) THEN 0
          ELSE ParseFloat(Head(frame)["UPNL (USD)"].v).v) + TotalUpnl(Tail(frame))

\* ------------------------------------------------------------- the store
Header == <<"Symbol", "Criteria", "Condition", "Threshold", "Status", "Triggered At">>

\* Lines 110-117: the sheet row of a rule; gspread writes None as an empty cell.
SheetRow(alert) ==
    << alert.symbol, alert.criteria, alert.condition, NumberCell(alert.threshold),
       alert.status,
       IF IsNone(alert.triggered_at) THEN "" ELSE alert.triggered_at.v >>

\* Lines 105-118: data = [headers] + one row per rule.
SheetData(as) == <<Header>> \o [i \in 1..Len(as) |-> SheetRow(as[i])]

\* Lines 66-78: the rules of the data rows, invalid rows skipped.
RECURSIVE ParseRows(_)
ParseRows(rs) ==
    IF rs = <<>> THEN <<>>
    ELSE LET row == Head(rs)
         IN  IF Len(row) >= 6 /\ row[1] # "" /\ ~IsNone(ParseFloat(row[4]))
             THEN << [symbol |-> row[1], criteria |-> row[2], condition |-> row[3],
                      threshold |-> ParseFloat(row[4]).v, status |-> row[5],
                      triggered_at |-> Str(row[6])] >> \o ParseRows(Tail(rs))
             ELSE ParseRows(Tail(rs))

\* Lines 40-86, load_alerts_from_sheet: the return value and the rule list after
\* it.  outcome "error" is any exception of the client, the spreadsheet or the
\* read (lines 44-45, 84-86).
LoadResult(as, sh, outcome) ==
    IF outcome = "error" THEN [ret |-> FALSE, alerts |-> as]
    ELSE IF ~sh.exists THEN [ret |-> TRUE, alerts |-> as]
    ELSE IF Len(sh.values) <= 1 THEN [ret |-> TRUE, alerts |-> as]
    ELSE [ret |-> TRUE, alerts |-> ParseRows(Tail(sh.values))]

LoadOutcomes == {"ok", "error"}
LoadFaults(o) == IF o = "ok" THEN 0 ELSE 1

\* Lines 88-129, update_google_sheet: the return value and the store after it.
\* "fail" raises before worksheet.clear() (lines 91-102), "fail_cleared" raises
\* in worksheet.update() after the clear (or after add_worksheet).
UpdateResult(as, sh, outcome) ==
    IF outcome = "ok" THEN [ret |-> TRUE, sheet |-> [exists |-> TRUE, values |-> SheetData(as)]]
    ELSE IF outcome = "fail_cleared" THEN [ret |-> FALSE, sheet |-> [exists |-> TRUE, values |-> <<>>]]
    ELSE [ret |-> FALSE, sheet |-> sh]

UpdateOutcomes == {"ok", "fail", "fail_cleared"}
UpdateFaults(o) == IF o = "ok" THEN 0 ELSE 1

\* ---------------------------------------------------------- the evaluator
\* Line 210, create_alert_id: the identity of a rule.
create_alert_id(alert) ==
    [symbol |-> alert.symbol, criteria |-> alert.criteria,
     condition |-> alert.condition, threshold |-> alert.threshold]

\* A mutant of IsEvaluated: only Inactive rules are skipped.
IsEvaluatedUnlessInactive(alert) == alert.status # "Inactive"

\* Lines 218-219: only Active rules are checked.
IsEvaluated(alert) == alert.status = "Active"

\* df[df["Symbol"] == symbol]: the matching rows, in frame order.
MatchingRows(frame, symbol) == SelectSeq(frame, LAMBDA r : r["Symbol"] = Str(symbol))

\* row.iloc[0].get(criteria)
RowField(row, criteria) == IF criteria \in Columns THEN row[criteria] ELSE NoneV

\* A mutant of CurrentValue: a missing row or field counts as the value 0.
CurrentValueZeroDefault(alert, frame, total) ==
    IF alert.symbol = "TOTAL_PNL" THEN Num(total)
    ELSE IF MatchingRows(frame, alert.symbol) = <<>> THEN Num(0)
    ELSE LET val_str == RowField(MatchingRows(frame, alert.symbol)[1], alert.criteria)
         IN  IF val_str.t = "str" /\ ~IsNone(ParseFloat(val_str.v))
             THEN ParseFloat(val_str.v) ELSE Num(0)

\* Lines 221-241: current_value, NoneV where the loop continues.
CurrentValue(alert, frame, total) ==
    IF alert.symbol = "TOTAL_PNL" THEN Num(total)
    ELSE IF MatchingRows(frame, alert.symbol) = <<>> THEN NoneV
    ELSE LET val_str == RowField(MatchingRows(frame, alert.symbol)[1], alert.criteria)
         IN  IF val_str.t = "str" THEN ParseFloat(val_str.v) ELSE NoneV

\* A mutant of ConditionMet: strict comparisons.
ConditionMetStrict(condition, current_value, threshold) ==
    IF condition = ">=" THEN current_value > threshold
    ELSE current_value < threshold

\* Lines 244-248.
ConditionMet(condition, current_value, threshold) ==
    IF condition = ">=" THEN current_value >= threshold
    ELSE current_value <= threshold

\* Lines 216-251: does the loop body reach the trigger branch for this rule.
Fires(alert, frame, total) ==
    /\ IsEvaluated(alert)
    /\ ~IsNone(CurrentValue(alert, frame, total))
    /\ ConditionMet(alert.condition, CurrentValue(alert, frame, total).v, alert.threshold)

\* datetime.now().strftime('%Y-%m-%d %H:%M:%S')
Now == "2025-01-01 00:00:00"

\* A mutant of Trigger: the status is set, the timestamp forgotten.
TriggerNoStamp(alert) == [alert EXCEPT !.status = "Triggered"]

\* Lines 274-276.
Trigger(alert) == [alert EXCEPT !.status = "Triggered", !.triggered_at = Str(Now)]

\* Lines 252-266: the notification handed to send_telegram_message for rule i.
AlertMessage(i, alert, current_value) ==
    [i |-> i, symbol |-> alert.symbol, criteria |-> alert.criteria, condition |-> alert.condition,
     threshold |-> alert.threshold, value |-> current_value]

\* Lines 214-279: the loop of check_and_trigger_alerts over the rule list:
\* the rule list after it, the notifications sent in order, and alerts_triggered.
RECURSIVE EvalLoop(_, _, _, _)
EvalLoop(as, i, frame, total) ==
    IF i > Len(as) THEN [alerts |-> as, sent |-> <<>>, triggered |-> 0]
    ELSE IF Fires(as[i], frame, total)
         THEN LET rest == EvalLoop([as EXCEPT ![i] = Trigger(as[i])], i + 1, frame, total)
              IN  [alerts |-> rest.alerts,
                   sent |-> <<AlertMessage(i, as[i], CurrentValue(as[i], frame, total).v)>> \o rest.sent,
                   triggered |-> rest.triggered + 1]
         ELSE EvalLoop(as, i + 1, frame, total)

\* ------------------------------------------------------------ the inputs
NoKeys == <<NoneV, NoneV, NoneV, NoneV>>

\* A raw position record of /v2/positions/margined.
Pos(sym, size, entry, mark) ==
    [symbol |-> NoneV,
     product |-> [symbol |-> Str(sym), keys |-> NoKeys, spot_symbol |-> NoneV,
                  index_price |-> NoneV, spot_index |-> NoneV],
     size |-> size, entry_price |-> entry, mark_price |-> mark, index_price |-> NoneV]

\* A record of /v2/tickers that has an index_price and no other price.
Ticker(sym, price) ==
    [symbol |-> Str(sym), index_price |-> price, spot_price |-> NoneV,
     last_traded_price |-> NoneV, mark_price |-> NoneV]

\* The ticker lists a successful request may return.
TickerInputs == { <<Ticker("ETHUSD", Num(120)), Ticker("BTCUSD", Num(65000))>> }

\* The position lists a successful request may return.
PositionInputs ==
    { <<>>,
      <<Pos("ETHUSD", Num(100), Num(100), Num(110)),
        Pos("BTCUSD", Num(20000), Str("100"), Str("90"))>>,
      <<Pos("BTCUSD", Num(20000), Str("100"), Str("100"))>>,
      <<Pos("BTCUSD", Num(20000), Str("100"), Str("105"))>>,
      <<Pos("BTCUSD", Num(20000), Str("100"), NoneV)>>,
      <<Pos("ETHUSD", Num(100), Num(100), Num(110))>> }

\* Outcomes of api_get: "timeout", "http_error" and "bad_json" are the
\* exceptions of requests.get, raise_for_status and resp.json (lines 148-150);
\* "no_result" is a JSON body without "result".
ApiOutcomes == {"ok", "timeout", "http_error", "bad_json", "no_result"}
ApiRaises(o) == o \in {"timeout", "http_error", "bad_json"}
ApiClass(o) == IF ApiRaises(o) THEN "raised" ELSE o

\* The choices of the two alert forms.
CreateSymbols == {"BTCUSD"}
CriteriaInputs == {"Mark Price"}
ConditionInputs == {">=", "<="}
ThresholdInputs == {0, 100}

\* The forms add a rule only while the rule list is shorter than this bound.
MaxAlerts == 1

\* Bound of the number of failing store operations of a session.
MaxFaults == 1

NoSheet == [exists |-> FALSE, values |-> <<>>]

\* The stores a session may start with: no worksheet, or a worksheet edited by
\* hand that holds two rules and, between them, a row with a malformed threshold.
InitialSheets ==
    { NoSheet,
      [exists |-> TRUE,
       values |-> << Header,
                     <<"BTCUSD", "UPNL (USD)", ">=", "100", "Active", "">>,
                     <<"BTCUSD", "Mark Price", "<=", "abc", "Active", "">>,
                     <<"TOTAL_PNL", "Total P&L", "<=", "100", "Active", "">> >>] }

\* ------------------------------------------------------------- the state
VARIABLES
    pc,          \* position of the script run: fetch, load, check, ui, crashed
    alerts,      \* st.session_state.alerts
    sheet,       \* the "Delta Alerts" worksheet
    positions,   \* the positions of this run
    tickers,     \* the tickers of this run
    df,          \* the sorted frame of this run
    total_upnl,  \* total_upnl of this run
    api,         \* history: how the two api_get calls of this run ended
    ld,          \* history: the load of this run, until the evaluation
    ev,          \* history: the evaluation of this run
    hist,        \* history: firing phase of each rule identity
    uiop,        \* history: the handler that ended the previous run
    react,       \* history: identities reactivated by the previous run
    unsaved,     \* history: rule list whose last store write failed
    faults,      \* history: number of store operations that failed so far
    page         \* the buttons of the last run that rendered the whole page

vars == <<pc, alerts, sheet, positions, tickers, df, total_upnl, api, ld, ev, hist,
          uiop, react, unsaved, faults, page>>

NoEval == [pre |-> <<>>, sent |-> <<>>, ret |-> 0, upd |-> "none", sheet0 |-> NoSheet]
NoLoad == [ret |-> FALSE, pre |-> <<>>]
NoUi == [op |-> "none", i |-> 0, pre |-> <<>>, upd |-> "none"]
NoUnsaved == [pending |-> FALSE, list |-> <<>>]
NoPage == [rendered |-> FALSE, rows |-> <<>>]
NoApi == [positions |-> "ok", tickers_raised |-> FALSE]

Init ==
    /\ pc = "fetch"
    /\ alerts = <<>>
    /\ sheet \in InitialSheets
    /\ positions = <<>>
    /\ tickers = <<>>
    /\ df = <<>>
    /\ total_upnl = 0
    /\ api = NoApi
    /\ ld = NoLoad
    /\ ev = NoEval
    /\ hist = {}
    /\ uiop = NoUi
    /\ react = {}
    /\ unsaved = NoUnsaved
    /\ faults = 0
    /\ page = NoPage

\* ------------------------------------------------- history of the firings
\* Does the condition of identity k hold on the data of a run.
CondHolds(k, frame, total) ==
    LET v == CurrentValue(k, frame, total)
    IN  ~IsNone(v) /\ ConditionMet(k.condition, v.v, k.threshold)

Phase(h, k) == IF \E e \in h : e.k = k THEN (CHOOSE e \in h : e.k = k).ph ELSE "none"
SetPhase(h, k, ph) == {e \in h : e.k # k} \cup (IF ph = "none" THEN {} ELSE {[k |-> k, ph |-> ph]})
Forget(h, k) == {e \in h : e.k # k}

\* New data: a fired identity whose condition no longer holds has dropped, a
\* dropped one whose condition holds again is back.
HistOnData(h, frame, total) ==
    { [k |-> e.k,
       ph |-> IF e.ph \in {"fired", "fired2"} /\ ~CondHolds(e.k, frame, total) THEN "dropped"
              ELSE IF e.ph = "dropped" /\ CondHolds(e.k, frame, total) THEN "back"
              ELSE e.ph] : e \in h }

RECURSIVE HistOnSent(_, _)
HistOnSent(h, sent) ==
    IF sent = <<>> THEN h
    ELSE LET k == create_alert_id(Head(sent))
             ph == Phase(h, k)
         IN  HistOnSent(SetPhase(h, k, IF ph = "none" THEN "fired"
                                       ELSE IF ph = "back" THEN "refired"
                                       ELSE "fired2"),
                        Tail(sent))

\* The run is over: a streak that restarted is an ordinary streak again.
HistOnRunEnd(h) ==
    { [k |-> e.k, ph |-> IF e.ph = "refired" THEN "fired" ELSE e.ph] :
        e \in {x \in h : x.ph # "back"} }

\* ------------------------------------------------------------ the script
\* Lines 287-364: both requests, the frame and the total.  An exception of
\* api_get is not caught and ends the run; so does the KeyError of sort_values
\* on the column-less frame of an empty position list (line 351).
Fetch ==
    /\ pc \in {"fetch", "crashed"}
    /\ \E po \in ApiOutcomes :
         \E to \in (IF ApiRaises(po) THEN {"ok"} ELSE ApiOutcomes) :
           \E ps \in (IF po = "ok" /\ ~ApiRaises(to) THEN PositionInputs ELSE {<<>>}),
              ts \in (IF to = "ok" /\ ~ApiRaises(po) THEN TickerInputs ELSE {<<>>}) :
             /\ api' = [positions |-> ApiClass(po), tickers_raised |-> ApiRaises(to)]
             /\ IF ApiRaises(po) \/ ApiRaises(to) \/ ps = <<>>
                THEN /\ pc' = "crashed"
                     /\ page' = NoPage
                     /\ positions' = <<>>
                     /\ tickers' = <<>>
                     /\ df' = <<>>
                     /\ total_upnl' = 0
                     /\ hist' = hist
                     /\ react' = {}
                ELSE /\ pc' = "load"
                     /\ page' = page
                     /\ positions' = ps
                     /\ tickers' = ts
                     /\ df' = BuildFrame(ps, ts)
                     /\ total_upnl' = TotalUpnl(BuildFrame(ps, ts))
                     /\ hist' = HistOnData(hist, BuildFrame(ps, ts), TotalUpnl(BuildFrame(ps, ts)))
                     /\ react' = react
    /\ uiop' = NoUi
    /\ UNCHANGED <<alerts, sheet, ld, ev, unsaved, faults>>

\* Lines 366-375: the session state and the load of every run.
Load ==
    /\ pc = "load"
    /\ \E o \in LoadOutcomes :
         /\ faults + LoadFaults(o) <= MaxFaults
         /\ faults' = faults + LoadFaults(o)
         /\ alerts' = LoadResult(alerts, sheet, o).alerts
         /\ ld' = [ret |-> LoadResult(alerts, sheet, o).ret, pre |-> alerts]
    /\ pc' = "check"
    /\ UNCHANGED <<sheet, positions, tickers, df, total_upnl, api, ev, hist, uiop, react,
                   unsaved, page>>

\* Lines 212-285 and 379, check_and_trigger_alerts(df, total_upnl).
Check ==
    /\ pc = "check"
    /\ LET r == EvalLoop(alerts, 1, df, total_upnl)
       IN  /\ alerts' = r.alerts
           /\ hist' = HistOnSent(hist, r.sent)
           /\ IF r.triggered > 0
              THEN \E uo \in UpdateOutcomes :
                     /\ faults + UpdateFaults(uo) <= MaxFaults
                     /\ faults' = faults + UpdateFaults(uo)
                     /\ sheet' = UpdateResult(r.alerts, sheet, uo).sheet
                     /\ ev' = [pre |-> alerts, sent |-> r.sent, ret |-> r.triggered,
                               upd |-> uo, sheet0 |-> sheet]
                     /\ unsaved' = IF UpdateResult(r.alerts, sheet, uo).ret THEN NoUnsaved
                                   ELSE [pending |-> TRUE, list |-> r.alerts]
              ELSE /\ sheet' = sheet
                   /\ faults' = faults
                   /\ ev' = [pre |-> alerts, sent |-> r.sent, ret |-> r.triggered,
                             upd |-> "none", sheet0 |-> sheet]
                   /\ unsaved' = IF unsaved.pending THEN [pending |-> TRUE, list |-> r.alerts]
                                 ELSE NoUnsaved
    /\ pc' = "ui"
    /\ ld' = NoLoad
    /\ UNCHANGED <<positions, tickers, df, total_upnl, api, uiop, react, page>>

\* Lines 584-602 and 610-637: the buttons of the alert management section.
\* Their keys hold the symbol and the index of the rule; a rule is listed in
\* the column of the Active rules, in that of the Inactive and Triggered
\* rules, or in neither.
Buttons(as) ==
    [i \in 1..Len(as) |->
        [symbol |-> as[i].symbol,
         column |-> IF as[i].status = "Active" THEN "active"
                    ELSE IF as[i].status \in {"Inactive", "Triggered"} THEN "inactive"
                    ELSE "none"]]

\* st.button(key) is True in this run: the button was on the page and is
\* created again by this run.
Pressed(i, column) ==
    /\ page.rendered
    /\ i \in 1..Len(page.rows)
    /\ i \in 1..Len(alerts)
    /\ page.rows[i] = Buttons(alerts)[i]
    /\ page.rows[i].column = column

\* st.experimental_rerun(): the run stops before the page is complete and the
\* next run has no input.
Rerun == page' = NoPage

\* The script reaches its last line: the page shows the rule list as.
Rendered(as) == page' = [rendered |-> TRUE, rows |-> Buttons(as)]

\* The end of a run: the next run starts from the top (timer tick or
\* st.experimental_rerun), with none of this run's locals.
EndRun ==
    /\ pc' = "fetch"
    /\ positions' = <<>>
    /\ tickers' = <<>>
    /\ df' = <<>>
    /\ total_upnl' = 0
    /\ api' = NoApi
    /\ ld' = NoLoad
    /\ ev' = NoEval

\* The handler wrote the store with outcome uo.
Written(uo) ==
    /\ faults + UpdateFaults(uo) <= MaxFaults
    /\ faults' = faults + UpdateFaults(uo)
    /\ sheet' = UpdateResult(alerts', sheet, uo).sheet
    /\ unsaved' = IF UpdateResult(alerts', sheet, uo).ret THEN NoUnsaved
                  ELSE [pending |-> TRUE, list |-> alerts']

\* A mutant of IsDuplicate: only the Active rules are compared.
IsDuplicateAmongActive(as, symbol, criteria, condition, threshold) ==
    \E j \in 1..Len(as) :
        /\ as[j].status = "Active"
        /\ as[j].symbol = symbol
        /\ as[j].criteria = criteria
        /\ as[j].condition = condition
        /\ as[j].threshold = threshold

\* Is new_alert a duplicate for the position form (lines 533-540).
IsDuplicate(as, symbol, criteria, condition, threshold) ==
    \E j \in 1..Len(as) :
        /\ as[j].symbol = symbol
        /\ as[j].criteria = criteria
        /\ as[j].condition = condition
        /\ as[j].threshold = threshold

\* Is it a duplicate for the Total P&L form (lines 445-451).
IsDuplicateTotal(as, condition, threshold) ==
    \E j \in 1..Len(as) :
        /\ as[j].symbol = "TOTAL_PNL"
        /\ as[j].condition = condition
        /\ as[j].threshold = threshold

NewAlert(symbol, criteria, condition, threshold) ==
    [symbol |-> symbol, criteria |-> criteria, condition |-> condition,
     threshold |-> threshold, status |-> "Active", triggered_at |-> NoneV]

\* Lines 514-566: the submit of alert_form for a symbol of the frame; the
\* form adds a rule only while the rule list is shorter than max.
SaveAlertUpTo(max) ==
    /\ pc = "ui"
    /\ page.rendered
    /\ \E r \in 1..Len(df), criteria \in CriteriaInputs,
          condition \in ConditionInputs, threshold \in ThresholdInputs :
         LET selected_symbol == df[r]["Symbol"].v
         IN  /\ selected_symbol \in CreateSymbols
             /\ IF threshold # 0
                   /\ ~IsDuplicate(alerts, selected_symbol, criteria, condition, threshold)
                THEN /\ Len(alerts) < max
                     /\ alerts' = Append(alerts, NewAlert(selected_symbol, criteria, condition, threshold))
                     /\ \E uo \in UpdateOutcomes :
                          /\ Written(uo)
                          /\ uiop' = [op |-> "create", i |-> Len(alerts) + 1, pre |-> alerts, upd |-> uo,
                                      req |-> NewAlert(selected_symbol, criteria, condition, threshold),
                                      sheet0 |-> sheet]
                     /\ hist' = Forget(HistOnRunEnd(hist),
                                       create_alert_id(NewAlert(selected_symbol, criteria, condition, threshold)))
                     /\ Rerun
                ELSE /\ alerts' = alerts
                     /\ Rendered(alerts)
                     /\ sheet' = sheet
                     /\ faults' = faults
                     /\ unsaved' = unsaved
                     /\ uiop' = [op |-> "rejected", i |-> 0, pre |-> alerts, upd |-> "none",
                                 req |-> NewAlert(selected_symbol, criteria, condition, threshold),
                                 sheet0 |-> sheet]
                     /\ hist' = HistOnRunEnd(hist)
    /\ react' = {}
    /\ EndRun

SaveAlert == SaveAlertUpTo(MaxAlerts)

\* Lines 431-474: the save button of the Total P&L form.
SaveTotalPnlUpTo(max) ==
    /\ pc = "ui"
    /\ page.rendered
    /\ \E pnl_condition \in ConditionInputs, pnl_threshold \in ThresholdInputs :
         IF pnl_threshold # 0 /\ ~IsDuplicateTotal(alerts, pnl_condition, pnl_threshold)
         THEN /\ Len(alerts) < max
              /\ alerts' = Append(alerts, NewAlert("TOTAL_PNL", "Total P&L", pnl_condition, pnl_threshold))
              /\ \E uo \in UpdateOutcomes :
                   /\ Written(uo)
                   /\ uiop' = [op |-> "create", i |-> Len(alerts) + 1, pre |-> alerts, upd |-> uo,
                               req |-> NewAlert("TOTAL_PNL", "Total P&L", pnl_condition, pnl_threshold),
                               sheet0 |-> sheet]
              /\ hist' = Forget(HistOnRunEnd(hist),
                                create_alert_id(NewAlert("TOTAL_PNL", "Total P&L", pnl_condition, pnl_threshold)))
              /\ Rerun
         ELSE /\ alerts' = alerts
              /\ Rendered(alerts)
              /\ sheet' = sheet
              /\ faults' = faults
              /\ unsaved' = unsaved
              /\ uiop' = [op |-> "rejected", i |-> 0, pre |-> alerts, upd |-> "none",
                          req |-> NewAlert("TOTAL_PNL", "Total P&L", pnl_condition, pnl_threshold),
                          sheet0 |-> sheet]
              /\ hist' = HistOnRunEnd(hist)
    /\ react' = {}
    /\ EndRun

SaveTotalPnl == SaveTotalPnlUpTo(MaxAlerts)

\* Lines 590-595: the deactivate button of an Active rule.
Deactivate ==
    /\ pc = "ui"
    /\ \E i \in 1..Len(alerts) :
         /\ Pressed(i, "active")
         /\ alerts' = [alerts EXCEPT ![i].status = "Inactive"]
         /\ hist' = Forget(HistOnRunEnd(hist), create_alert_id(alerts[i]))
         /\ \E uo \in UpdateOutcomes :
              /\ Written(uo)
              /\ uiop' = [op |-> "deactivate", i |-> i, pre |-> alerts, upd |-> uo]
    /\ Rerun
    /\ react' = {}
    /\ EndRun

\* alerts.pop(i)
Pop(as, i) == SubSeq(as, 1, i - 1) \o SubSeq(as, i + 1, Len(as))

\* Lines 597-602 and 632-637: the delete button of a listed rule.
Delete ==
    /\ pc = "ui"
    /\ \E i \in 1..Len(alerts) :
         /\ Pressed(i, "active") \/ Pressed(i, "inactive")
         /\ alerts' = Pop(alerts, i)
         /\ hist' = Forget(HistOnRunEnd(hist), create_alert_id(alerts[i]))
         /\ \E uo \in UpdateOutcomes :
              /\ Written(uo)
              /\ uiop' = [op |-> "delete", i |-> i, pre |-> alerts, upd |-> uo]
    /\ Rerun
    /\ react' = {}
    /\ EndRun

\* Lines 626-627.
Reactivated(alert) == [alert EXCEPT !.status = "Active", !.triggered_at = NoneV]

\* Lines 624-630: the reactivate button of a Triggered or Inactive rule.
Reactivate ==
    /\ pc = "ui"
    /\ \E i \in 1..Len(alerts) :
         /\ Pressed(i, "inactive")
         /\ alerts' = [alerts EXCEPT ![i] = Reactivated(alerts[i])]
         /\ hist' = Forget(HistOnRunEnd(hist), create_alert_id(alerts[i]))
         /\ react' = {create_alert_id(alerts[i])}
         /\ \E uo \in UpdateOutcomes :
              /\ Written(uo)
              /\ uiop' = [op |-> "reactivate", i |-> i, pre |-> alerts, upd |-> uo]
    /\ Rerun
    /\ EndRun

\* Lines 644-648: "Force Sync from Sheets".
ForceLoad ==
    /\ pc = "ui"
    /\ page.rendered
    /\ Rendered(alerts)
    /\ \E o \in LoadOutcomes :
         /\ faults + LoadFaults(o) <= MaxFaults
         /\ faults' = faults + LoadFaults(o)
         /\ alerts' = LoadResult(alerts, sheet, o).alerts
    /\ sheet' = sheet
    /\ unsaved' = NoUnsaved
    /\ hist' = HistOnRunEnd(hist)
    /\ uiop' = [op |-> "force_load", i |-> 0, pre |-> alerts, upd |-> "none"]
    /\ react' = {}
    /\ EndRun

\* Lines 651-655: "Force Sync to Sheets".
ForceSync ==
    /\ pc = "ui"
    /\ page.rendered
    /\ Rendered(alerts)
    /\ alerts' = alerts
    /\ \E uo \in UpdateOutcomes :
         /\ faults + UpdateFaults(uo) <= MaxFaults
         /\ faults' = faults + UpdateFaults(uo)
         /\ sheet' = UpdateResult(alerts, sheet, uo).sheet
         /\ unsaved' = IF UpdateResult(alerts, sheet, uo).ret THEN NoUnsaved ELSE unsaved
         /\ uiop' = [op |-> "force_sync", i |-> 0, pre |-> alerts, upd |-> uo]
    /\ hist' = HistOnRunEnd(hist)
    /\ react' = {}
    /\ EndRun

\* No button was pressed: the run renders and ends, the timer starts the next.
Render ==
    /\ pc = "ui"
    /\ Rendered(alerts)
    /\ hist' = HistOnRunEnd(hist)
    /\ uiop' = NoUi
    /\ react' = {}
    /\ UNCHANGED <<alerts, sheet, unsaved, faults>>
    /\ EndRun

Next ==
    \/ Fetch
    \/ Load
    \/ Check
    \/ Render
    \/ SaveAlert
    \/ SaveTotalPnl
    \/ Deactivate
    \/ Delete
    \/ Reactivate
    \/ ForceLoad
    \/ ForceSync

Spec == Init /\ [][Next]_vars

\* ------------------------------------------------ sessions of two rules
\* A session that starts without a worksheet and whose forms add a rule while
\* the rule list holds at most MaxAlerts rules.
InitEmpty == Init /\ sheet = NoSheet

NextEmpty ==
    \/ Fetch
    \/ Load
    \/ Check
    \/ Render
    \/ SaveAlertUpTo(MaxAlerts + 1)
    \/ SaveTotalPnlUpTo(MaxAlerts + 1)
    \/ Deactivate
    \/ Delete
    \/ Reactivate
    \/ ForceLoad
    \/ ForceSync

SpecEmpty == InitEmpty /\ [][NextEmpty]_vars

\* ------------------------------------------- the normaliser on its own
\* The raw values of one position record: absent, malformed, a number or the
\* text of a number; the lot counts are multiples of the lots of a coin.
NormSymbols == {"BTCUSD", "ETHUSD", "SOLUSD", "C-BTC-120800-110825"}
NormSizes == {NoneV, Str("abc"), Num(0 - 2000), Num(2000), Num(0)}
NormEntries == {NoneV, Num(100), Str("100")}
NormMarks == {NoneV, Num(90), Num(110), Str("bad")}

InitNorm ==
    /\ pc = "norm"
    /\ \E sym \in NormSymbols, size \in NormSizes, entry \in NormEntries, mark \in NormMarks :
         positions = <<Pos(sym, size, entry, mark)>>
    /\ tickers = <<>>
    /\ alerts = <<>>
    /\ sheet = NoSheet
    /\ df = <<>>
    /\ total_upnl = 0
    /\ api = NoApi
    /\ ld = NoLoad
    /\ ev = NoEval
    /\ hist = {}
    /\ uiop = NoUi
    /\ react = {}
    /\ unsaved = NoUnsaved
    /\ faults = 0
    /\ page = NoPage

\* Lines 307-364 on the fetched positions.
Normalise ==
    /\ pc = "norm"
    /\ pc' = "normed"
    /\ df' = BuildFrame(positions, tickers)
    /\ total_upnl' = TotalUpnl(BuildFrame(positions, tickers))
    /\ UNCHANGED <<alerts, sheet, positions, tickers, api, ld, ev, hist, uiop, react,
                   unsaved, faults, page>>

NextNorm == Normalise

SpecNorm == InitNorm /\ [][NextNorm]_vars

\* ------------------------------------- the index price chain on its own
\* A nested price object {"index_price": a, "price": b}.
PriceObject(a, b) == [t |-> "dict", index_price |-> a, price |-> b]

\* product["spot_index"] = {"index_price": a, "spot_price": b}.
SpotIndex(a, b) == [t |-> "dict", index_price |-> a, spot_price |-> b]

\* A ticker whose only price is its mark_price.
MarkTicker(sym, price) == [Ticker(sym, NoneV) EXCEPT !.mark_price = price]

IndexSymbols == {"BTCUSD", "SOLUSD"}
PositionIndexInputs ==
    {NoneV, Num(0), Num(150), Str("151"), PriceObject(NoneV, NoneV),
     PriceObject(Num(152), NoneV), PriceObject(NoneV, Num(153))}
ProductIndexInputs == {NoneV, Num(170)}
SpotIndexInputs ==
    {NoneV, SpotIndex(NoneV, NoneV), SpotIndex(Num(180), NoneV), SpotIndex(NoneV, Num(181))}
IndexTickerInputs ==
    { <<>>,
      <<Ticker("BTCUSD", Num(65000))>>,
      <<Ticker("BTCUSD", Num(0)), Ticker("C-BTC-120800-110825", Num(190)),
        Ticker("BTCUSD", Str("191")), Ticker("BTCUSD", Num(192))>>,
      <<Ticker("ETHUSD", Num(193)), Ticker("BTCUSD", NoneV), MarkTicker("BTCUSD", Num(194))>> }

PosWithIndex(sym, index_price, product_index_price, spot_index) ==
    [Pos(sym, Num(2000), Num(100), Num(110)) EXCEPT
        !.index_price = index_price,
        !.product.index_price = product_index_price,
        !.product.spot_index = spot_index]

InitIndex ==
    /\ pc = "norm"
    /\ \E sym \in IndexSymbols, ip \in PositionIndexInputs, pip \in ProductIndexInputs,
          si \in SpotIndexInputs :
         positions = <<PosWithIndex(sym, ip, pip, si)>>
    /\ tickers \in IndexTickerInputs
    /\ alerts = <<>>
    /\ sheet = NoSheet
    /\ df = <<>>
    /\ total_upnl = 0
    /\ api = NoApi
    /\ ld = NoLoad
    /\ ev = NoEval
    /\ hist = {}
    /\ uiop = NoUi
    /\ react = {}
    /\ unsaved = NoUnsaved
    /\ faults = 0
    /\ page = NoPage

NextIndex == Normalise

SpecIndex == InitIndex /\ [][NextIndex]_vars

\* =============================================================== claims
\* The terms of the claims, stated on the frame and the rule list themselves.
Identity(a) == <<a.symbol, a.criteria, a.condition, a.threshold>>

HasRow(a, frame) == \E r \in 1..Len(frame) : frame[r]["Symbol"] = Str(a.symbol)

FirstRow(a, frame) ==
    frame[CHOOSE r \in 1..Len(frame) :
            /\ frame[r]["Symbol"] = Str(a.symbol)
            /\ \A q \in 1..(r - 1) : frame[q]["Symbol"] # Str(a.symbol)]

\* The number the watched value of a rule resolves to, NoneV if it does not.
Resolved(a, frame, total) ==
    IF a.symbol = "TOTAL_PNL" THEN Num(total)
    ELSE IF ~HasRow(a, frame) THEN NoneV
    ELSE IF a.criteria \notin DOMAIN FirstRow(a, frame) THEN NoneV
    ELSE IF FirstRow(a, frame)[a.criteria].t # "str" THEN NoneV
    ELSE ParseFloat(FirstRow(a, frame)[a.criteria].v)

Compares(a, v) ==
    \/ a.condition = ">=" /\ v >= a.threshold
    \/ a.condition = "<=" /\ v <= a.threshold

\* The condition of a rule holds on the data of the run.
Satisfied(a, frame, total) ==
    /\ ~IsNone(Resolved(a, frame, total))
    /\ Compares(a, Resolved(a, frame, total).v)

\* Notifications of the last evaluation for the rule at index i.
SentFor(i) == {j \in 1..Len(ev.sent) : ev.sent[j].i = i}
FiredAt(i) == SentFor(i) # {}

PhaseOf(a) == Phase(hist, create_alert_id(a))

\* C1 (as claimed): while the condition of a rule stays true in every run that
\* has data and nobody reactivates, deactivates, deletes or re-creates the rule,
\* it sends at most one notification, whether or not a store write succeeds.
C1_AtMostOneNotification == \A e \in hist : e.ph # "fired2"

Quiet(a, frame, total) ==
    \/ a.status # "Active"
    \/ a.symbol # "TOTAL_PNL" /\ ~HasRow(a, frame)
    \/ IsNone(Resolved(a, frame, total))
    \/ ~Compares(a, Resolved(a, frame, total).v)

\* C3: an evaluation adds and removes no rule and changes no identity field,
\* and a rule that is not Active, has no row, has a null or non-numeric field
\* or a false comparison sends nothing and keeps its status and triggered_at.
C3_OnlyFiringRulesChange ==
    pc = "ui" =>
        /\ Len(alerts) = Len(ev.pre)
        /\ \A i \in 1..Len(ev.pre) :
             /\ Identity(alerts[i]) = Identity(ev.pre[i])
             /\ Quiet(ev.pre[i], df, total_upnl) =>
                  /\ ~FiredAt(i)
                  /\ alerts[i].status = ev.pre[i].status
                  /\ alerts[i].triggered_at = ev.pre[i].triggered_at

C3_Witness ==
    /\ pc = "ui"
    /\ \E i, j \in 1..Len(ev.pre) :
         /\ ev.pre[i].status = "Triggered"
         /\ Satisfied(ev.pre[i], df, total_upnl)
         /\ alerts[i] = ev.pre[i]
         /\ FiredAt(j)

\* C4: an Active rule whose value resolves to a number fires in the evaluation
\* exactly if value >= threshold for ">=" and value <= threshold for "<=".
C4_FiresIffComparisonHolds ==
    pc = "ui" =>
        \A i \in 1..Len(ev.pre) :
            ev.pre[i].status = "Active" /\ ~IsNone(Resolved(ev.pre[i], df, total_upnl))
                => (FiredAt(i) <=> Compares(ev.pre[i], Resolved(ev.pre[i], df, total_upnl).v))

C4_Witness ==
    /\ pc = "ui"
    /\ \E i, j \in 1..Len(ev.pre) :
         /\ ev.pre[i].condition = ">=" /\ ev.pre[j].condition = "<="
         /\ ev.pre[i].symbol # "TOTAL_PNL" /\ ev.pre[j].symbol = "TOTAL_PNL"
         /\ Resolved(ev.pre[i], df, total_upnl) = Num(ev.pre[i].threshold)
         /\ Resolved(ev.pre[j], df, total_upnl) = Num(ev.pre[j].threshold)
         /\ FiredAt(i) /\ FiredAt(j)

\* The rules that went from Active to Triggered in the last evaluation.
NewlyTriggered ==
    {i \in 1..Len(ev.pre) : ev.pre[i].status = "Active" /\ alerts[i].status = "Triggered"}

\* The part of C5 about the rules and the return value.
FiredRulesAreTriggered ==
    /\ \A i \in 1..Len(ev.pre) :
         ev.pre[i].status = "Active" /\ Satisfied(ev.pre[i], df, total_upnl) =>
            /\ alerts[i].status = "Triggered"
            /\ alerts[i].triggered_at.t = "str" /\ alerts[i].triggered_at.v # ""
            /\ Cardinality(SentFor(i)) = 1
    /\ ev.ret = Cardinality(NewlyTriggered)

\* C5 (as claimed): ... and the store is rewritten in the evaluation exactly
\* if the number of newly Triggered rules is greater than zero.
C5_StoreRewrittenIffTriggered ==
    pc = "ui" =>
        /\ FiredRulesAreTriggered
        /\ (ev.ret > 0 <=> ev.upd = "ok" /\ sheet = [exists |-> TRUE, values |-> SheetData(alerts)])

\* C5 (amended): every rule that fires ends Triggered with a non-empty
\* triggered_at and exactly one notification, the return value is the number
\* of rules that went from Active to Triggered, and a rewrite of the store is
\* attempted exactly if that number is greater than zero: with zero the store
\* is untouched, and a rewrite that succeeds leaves the store holding the rule
\* list of the end of the evaluation.
C5_RewriteAttemptedIffTriggered ==
    pc = "ui" =>
        /\ FiredRulesAreTriggered
        /\ (ev.ret > 0 <=> ev.upd # "none")
        /\ (ev.ret = 0 => sheet = ev.sheet0)
        /\ (ev.upd = "ok" => sheet = [exists |-> TRUE, values |-> SheetData(alerts)])

C5_Witness ==
    /\ pc = "ui"
    /\ ev.ret = 2
    /\ ev.upd = "fail"
    /\ sheet # [exists |-> TRUE, values |-> SheetData(alerts)]

\* C6 (as claimed): reactivation sets the rule Active and clears triggered_at
\* and changes nothing else; and in the next run the reactivated rule, if its
\* condition holds, fires once and is Triggered again.
C6_ReactivatedRuleFiresAgain ==
    /\ pc = "fetch" /\ uiop.op = "reactivate" =>
         /\ uiop.pre[uiop.i].status \in {"Triggered", "Inactive"}
         /\ alerts = [uiop.pre EXCEPT ![uiop.i].status = "Active",
                                      ![uiop.i].triggered_at = NoneV]
    /\ pc = "ui" =>
         \A k \in react :
            Satisfied(k, df, total_upnl) =>
                \E i \in 1..Len(alerts) :
                    /\ create_alert_id(alerts[i]) = k
                    /\ Cardinality(SentFor(i)) = 1
                    /\ alerts[i].status = "Triggered"

\* C7 (as claimed): no run in which a request for the positions or the tickers
\* failed, or returned no "result", is ended before the rules are loaded.
C7_ApiFailureNeverEndsRun ==
    pc = "crashed" => api.positions = "ok" /\ ~api.tickers_raised

\* C8 (as claimed): after a load that returned False the rule list is the one
\* before the load, and a rule list whose store write failed is still the rule
\* list after the load of the following run.
C8_FallsBackToMemory ==
    pc = "check" =>
        /\ ~ld.ret => alerts = ld.pre
        /\ unsaved.pending => alerts = unsaved.list

\* The rules a store holds: none without worksheet, rows or below the header.
StoreRules(sh) ==
    IF ~sh.exists \/ Len(sh.values) <= 1 THEN <<>> ELSE ParseRows(Tail(sh.values))

StatusView(as) ==
    [i \in 1..Len(as) |-> <<as[i].symbol, as[i].criteria, as[i].condition,
                            as[i].threshold, as[i].status>>]

\* C9 (as claimed): after a load that returned True the rule list is the
\* sequence of well-formed rows of the store, empty for a store without rule
\* rows; and the rules of a written store read back with the same symbol,
\* criteria, condition, threshold and status, in the same order.
C9_LoadReadsWholeTable ==
    /\ pc = "check" /\ ld.ret => alerts = StoreRules(sheet)
    /\ StatusView(StoreRules(UpdateResult(alerts, sheet, "ok").sheet)) = StatusView(alerts)

\* The number a cell of the frame shows.
CellValue(cell) == ParseFloat(cell.v).v

\* The unrealized P&L the entry price, mark price and coin size of a row give.
ExpectedUpnl(entry, mark, coins) ==
    IF coins < 0 THEN (entry - mark) * Abs(coins) ELSE (mark - entry) * Abs(coins)

\* C10: the unrealized P&L of a row is null exactly when its entry price, mark
\* price or size in coins is null, and otherwise is (mark - entry) * |coins|
\* for a long or flat row and (entry - mark) * |coins| for a short one; entry
\* 100 and mark 90 at -2 coins, and entry 100 and mark 110 at 2 coins, give
\* 20; a record without entry price, mark price or size gets a row, and the
\* row's P&L is null, never zero.
C10_UpnlFormula ==
    pc = "normed" =>
        /\ Len(df) = Len(positions)
        /\ \A i \in 1..Len(df) :
             LET e == df[i]["Entry Price"]
                 m == df[i]["Mark Price"]
                 c == df[i]["Size (coins)"]
                 u == df[i]["UPNL (USD)"]
             IN  /\ IsNone(u) <=> IsNone(e) \/ IsNone(m) \/ IsNone(c)
                 /\ ~IsNone(u) =>
                       CellValue(u) = ExpectedUpnl(CellValue(e), CellValue(m), CellValue(c))
                 /\ e = Str("100.00") /\ m = Str("90.00") /\ c = Str("-2.00")
                       => u = Str("20.00")
                 /\ e = Str("100.00") /\ m = Str("110.00") /\ c = Str("2.00")
                       => u = Str("20.00")
        /\ \A i \in 1..Len(positions) :
             IsNone(positions[i].entry_price) \/ IsNone(positions[i].mark_price)
                 \/ IsNone(positions[i].size)
             => IsNone(df[i]["UPNL (USD)"])

\* A short row of entry 100, mark 90 and -2 coins has been normalised.
C10_Witness ==
    /\ pc = "normed"
    /\ \E i \in 1..Len(df) :
         /\ df[i]["Entry Price"] = Str("100.00")
         /\ df[i]["Mark Price"] = Str("90.00")
         /\ df[i]["Size (coins)"] = Str("-2.00")
         /\ df[i]["UPNL (USD)"] = Str("20.00")

\* The underlying the code detects for a raw position record.
UnderlyingOf(p) == detect_underlying(p.product, ContractSymbol(p))

\* The lots of one coin as C11 states them: 1000 for BTC, 100 for ETH and 1
\* for any other underlying, an undetected one included.
ClaimedLotsPerCoin(u) ==
    IF u = Str("BTC") THEN 1000 ELSE IF u = Str("ETH") THEN 100 ELSE 1

\* C11 (as claimed): every position whose size is present has size_coins =
\* size_lots / lots_per_coin(underlying), with lots_per_coin 1 when the
\* underlying is not recognised; so a position with numeric size, entry price
\* and mark price and no detectable underlying shows size_coins = size_lots
\* and a non-null unrealized P&L.
C11_SizeCoinsDefaultsToLots ==
    pc = "normed" =>
        \A i \in 1..Len(positions) :
            LET size_lots == to_float(positions[i].size)
                entry_price == to_float(positions[i].entry_price)
                mark_price == to_float(positions[i].mark_price)
            IN  ~IsNone(size_lots) =>
                  /\ df[i]["Size (coins)"] =
                        Str(Fmt2(size_lots.v \div ClaimedLotsPerCoin(UnderlyingOf(positions[i]))))
                  /\ ~IsNone(entry_price) /\ ~IsNone(mark_price)
                        => ~IsNone(df[i]["UPNL (USD)"])

\* A nested price object stands for its index_price, else its price.
Unwrapped(x) ==
    IF x.t = "dict" THEN (IF ~IsNone(x.index_price) THEN x.index_price ELSE x.price) ELSE x

\* The map entry C12 states: the price of the first ticker of the list whose
\* symbol holds the code and "USD" and whose price is neither null nor zero.
ClaimedMapEntry(code, ts) ==
    LET good == {n \in 1..Len(ts) :
                    /\ ts[n].symbol.t = "str"
                    /\ IF code = "BTC" THEN HasBTC(ts[n].symbol.v) ELSE HasETH(ts[n].symbol.v)
                    /\ HasUSD(ts[n].symbol.v)
                    /\ ~IsNone(TickerPrice(ts[n])) /\ TickerPrice(ts[n]).v # 0}
    IN  IF good = {} THEN NoneV
        ELSE TickerPrice(ts[CHOOSE n \in good : \A m \in good : n <= m])

\* The ordered chain of C12 for a position.
IndexChain(p, ts) ==
    << Unwrapped(p.index_price),
       p.product.index_price,
       IF p.product.spot_index.t = "dict" THEN p.product.spot_index.index_price ELSE NoneV,
       IF p.product.spot_index.t = "dict" THEN p.product.spot_index.spot_price ELSE NoneV,
       IF IsNone(UnderlyingOf(p)) THEN NoneV ELSE ClaimedMapEntry(UnderlyingOf(p).v, ts) >>

RECURSIVE FirstNonNull(_)
FirstNonNull(chain) ==
    IF chain = <<>> THEN NoneV
    ELSE IF ~IsNone(Head(chain)) THEN Head(chain)
    ELSE FirstNonNull(Tail(chain))

\* The ticker map is as C12 states it.
TickerMapAsClaimed ==
    \A code \in {"BTC", "ETH"} :
        IF IsNone(ClaimedMapEntry(code, tickers))
        THEN code \notin DOMAIN IndexMap(tickers)
        ELSE /\ code \in DOMAIN IndexMap(tickers)
             /\ IndexMap(tickers)[code] = ClaimedMapEntry(code, tickers)

\* C12 (as claimed): the index price of a row is the first non-null value of
\* the chain position-level index_price (a nested price object unwrapped),
\* product-level index_price, spot_index index_price, spot_index spot_price,
\* ticker map entry of the underlying, so that a later source is never used
\* when an earlier one is non-null; and the ticker map entry of an underlying
\* is the price of the first ticker whose symbol holds the code and "USD" and
\* whose price is neither null nor zero.
C12_FirstNonNullOfChain ==
    pc = "normed" =>
        /\ TickerMapAsClaimed
        /\ \A i \in 1..Len(positions) :
             df[i]["Index Price"] = FmtOpt(to_float(FirstNonNull(IndexChain(positions[i], tickers))))

UniqueKeys(as) ==
    \A i, j \in 1..Len(as) : i # j => Identity(as[i]) # Identity(as[j])

KeyExists(as, a) == \E i \in 1..Len(as) : Identity(as[i]) = Identity(a)

\* C13: no two rules of the rule list share symbol, criteria, condition and
\* threshold, whatever their statuses; and a create request whose key is in
\* the rule list, or whose threshold is 0, is rejected and leaves the rule
\* list and the store as they were.
C13_RuleIdentityUnique ==
    /\ UniqueKeys(alerts)
    /\ pc = "fetch" /\ uiop.op \in {"create", "rejected"}
            /\ (KeyExists(uiop.pre, uiop.req) \/ uiop.req.threshold = 0)
         => /\ uiop.op = "rejected"
            /\ alerts = uiop.pre
            /\ sheet = uiop.sheet0

\* A request for the key of a rule that is no longer Active has been rejected
\* while the form still accepted new keys.
C13_Witness ==
    /\ pc = "fetch"
    /\ uiop.op = "rejected"
    /\ uiop.req.threshold # 0
    /\ Len(alerts) = 1
    /\ Identity(alerts[1]) = Identity(uiop.req)
    /\ alerts[1].status = "Triggered"

\* A non-empty timestamp.
Stamped(a) == a.triggered_at.t = "str" /\ a.triggered_at.v # ""

\* Every rule has one of the three statuses, and a timestamp exactly if it is
\* Triggered.
StatusMatchesStamp ==
    \A i \in 1..Len(alerts) :
        /\ alerts[i].status \in {"Active", "Triggered", "Inactive"}
        /\ Stamped(alerts[i]) <=> alerts[i].status = "Triggered"

\* No rule of the list old is Triggered in the list new without having been so.
NoneBecameTriggered(old, new) ==
    \A i \in 1..Len(old), j \in 1..Len(new) :
        Identity(old[i]) = Identity(new[j]) /\ new[j].status = "Triggered"
            => old[i].status = "Triggered"

\* C14 (as claimed): in a session that starts with an empty rule list and
\* store, every rule is Active, Triggered or Inactive and has a non-empty
\* triggered_at exactly if it is Triggered; and a rule becomes Triggered only
\* from Active and only in an evaluation in which its condition held: not in
\* a load of the store and not in a handler.
C14_StatusAndStampConsistent ==
    /\ StatusMatchesStamp
    /\ pc = "check" => NoneBecameTriggered(ld.pre, alerts)
    /\ pc = "ui" =>
         \A i \in 1..Len(ev.pre) :
            alerts[i].status = "Triggered" /\ ev.pre[i].status # "Triggered"
                => ev.pre[i].status = "Active" /\ Satisfied(ev.pre[i], df, total_upnl)
    /\ pc = "fetch" /\ uiop.op # "none" => NoneBecameTriggered(uiop.pre, alerts)

====
